---- MODULE Spec2Model ----
(***************************************************************************)
(* Curve-construction pipeline of the Bloomberg volatility component:      *)
(* ticker resolution (ndfMappings.ts), the FX forward fetch cycle          *)
(* (FXForwardCurvesTab.tsx and its variants) and the yield-curve fetch     *)
(* (YieldCurvesTab.tsx).                                                   *)
(*                                                                         *)
(* Numbers: a finite JavaScript number is an exact decimal v * 10^e, kept   *)
(* with v free of trailing zeros, so 1.0850 is (1085, -3) and -10.5        *)
(* forward points are (-105, -1).  Dividing or multiplying by a pip factor *)
(* (100, 10000) shifts e: arithmetic is that of the reals, IEEE rounding   *)
(* is not modelled.                                                        *)
(* Strings are TLA+ strings; characters are read with SubSeq.              *)
(***************************************************************************)
EXTENDS Integers, Sequences, FiniteSets, TLC

VARIABLES
  \* ---- FXForwardCurvesTab component state (useState hooks)
  selectedPairs,   \* Set<CurrencyPair>, in insertion order
  forwardData,     \* Map<CurrencyPair, ForwardPoint[]>
  loading,         \* boolean
  error,           \* string | null
  lastUpdate,      \* Date | null, as the logical time of the commit
  dataSource,      \* string
  cycles,          \* the calls of fetchForwardData, by start order
  clock,           \* logical time (new Date())
  \* ---- one run of the ticker-list loop of fetchForwardData
  r_pair, r_ladder, r_i, securities,
  \* ---- one request/response of a fetch variant
  p_variant, p_pair, p_reply, p_out, p_pc,
  \* ---- one request/response of YieldCurvesTab.fetchCurveData
  y_ccy, y_reply, y_out, y_pc

uiVars == <<selectedPairs, forwardData, loading, error, lastUpdate, dataSource, cycles, clock>>
resolveVars == <<r_pair, r_ladder, r_i, securities>>
pipeVars == <<p_variant, p_pair, p_reply, p_out, p_pc>>
yieldVars == <<y_ccy, y_reply, y_out, y_pc>>
vars == <<uiVars, resolveVars, pipeVars, yieldVars>>

\* JavaScript null / undefined where a string is expected
Null == "<null>"

(***************************************************************************)
(* String helpers (String.prototype.includes, split, Array.indexOf, and    *)
(* the unanchored regular expressions of the tenor matching).              *)
(***************************************************************************)
Char(s, i) == SubSeq(s, i, i)

IsDigit(c) == c \in {"0", "1", "2", "3", "4", "5", "6", "7", "8", "9"}

StartsWithAt(s, i, pre) ==
  /\ i >= 1
  /\ i + Len(pre) - 1 <= Len(s)
  /\ SubSeq(s, i, i + Len(pre) - 1) = pre

Includes(s, sub) == \E i \in 1..(Len(s) + 1) : StartsWithAt(s, i, sub)

\* Array.prototype.indexOf: 0-based, -1 when absent
IndexOf(seq, x) ==
  IF \E i \in 1..Len(seq) : seq[i] = x
  THEN (CHOOSE i \in 1..Len(seq) : seq[i] = x /\ \A j \in 1..(i - 1) : seq[j] # x) - 1
  ELSE -1

\* String.prototype.split('-')
RECURSIVE SplitFrom(_, _, _)
SplitFrom(s, start, i) ==
  IF i > Len(s) THEN <<SubSeq(s, start, Len(s))>>
  ELSE IF Char(s, i) = "-"
       THEN <<SubSeq(s, start, i - 1)>> \o SplitFrom(s, i + 1, i + 1)
       ELSE SplitFrom(s, start, i + 1)

SplitDash(s) == SplitFrom(s, 1, 1)

\* index after the run of digits that starts at j
RECURSIVE DigitsEnd(_, _)
DigitsEnd(s, j) ==
  IF j <= Len(s) /\ IsDigit(Char(s, j)) THEN DigitsEnd(s, j + 1) ELSE j

\* prefix(\d+[units]) Curncy  tried at position i: the captured group, or Null
MatchAt(s, i, prefix, units) ==
  IF ~StartsWithAt(s, i, prefix) THEN Null
  ELSE LET j == i + Len(prefix)
           k == DigitsEnd(s, j)
       IN IF k > j /\ k <= Len(s) /\ Char(s, k) \in units /\ StartsWithAt(s, k + 1, " Curncy")
          THEN SubSeq(s, j, k)
          ELSE Null

\* ticker.match(new RegExp(`${prefix}(\\d+[WMY]) Curncy`)): leftmost match, not anchored
RegexTenor(s, prefix, units) ==
  LET hits == {i \in 1..Len(s) : MatchAt(s, i, prefix, units) # Null}
  IN IF hits = {} THEN Null
     ELSE MatchAt(s, CHOOSE i \in hits : \A j \in hits : i <= j, prefix, units)

(***************************************************************************)
(* constants/ndfMappings.ts                                                *)
(***************************************************************************)
NDF_MAPPINGS ==
  [ USDINR |-> [format |-> "IRN", coverage |-> "1W-6M"],
    USDTWD |-> [format |-> "NTN", coverage |-> "1W-5Y"],
    USDIDR |-> [format |-> "IHN", coverage |-> "1W-9M"],
    USDBRL |-> [format |-> "BCN", coverage |-> "1W-9M"],
    USDCLP |-> [format |-> "CHN", coverage |-> "1W-9M"],
    USDPEN |-> [format |-> "", coverage |-> "none"],
    USDARS |-> [format |-> "", coverage |-> "none"],
    USDKRW |-> [format |-> "KWN", coverage |-> "1W-5Y"],
    USDPHP |-> [format |-> "PPN", coverage |-> "1W-9M"],
    USDMYR |-> [format |-> "MRN", coverage |-> "1W-9M"],
    USDCOP |-> [format |-> "CLN", coverage |-> "1W-3Y"] ]

HasMapping(pair) == pair \in DOMAIN NDF_MAPPINGS

usesNDF(pair) == HasMapping(pair) /\ NDF_MAPPINGS[pair].format # ""

getMaxNDFTenor(pair) ==
  IF ~HasMapping(pair) \/ NDF_MAPPINGS[pair].coverage = "" \/ NDF_MAPPINGS[pair].coverage = "none"
  THEN Null
  ELSE LET coverage == SplitDash(NDF_MAPPINGS[pair].coverage)
       IN IF Len(coverage) > 1 THEN coverage[2] ELSE Null

tenorOrder == <<"1W", "2W", "1M", "2M", "3M", "6M", "9M", "1Y", "18M", "2Y", "3Y", "4Y", "5Y">>

getNDFTicker(pair, tenor) ==
  IF ~HasMapping(pair) \/ NDF_MAPPINGS[pair].format = "" THEN Null
  ELSE IF NDF_MAPPINGS[pair].coverage = "none" THEN Null
  ELSE LET maxTenor == getMaxNDFTenor(pair)
       IN IF maxTenor # Null /\ IndexOf(tenorOrder, tenor) > IndexOf(tenorOrder, maxTenor)
          THEN Null
          ELSE NDF_MAPPINGS[pair].format \o tenor \o " Curncy"

(***************************************************************************)
(* FXForwardCurvesTab.fetchForwardData: the ticker list of one pair.       *)
(***************************************************************************)
\* FXForwardCurvesTab.tsx:88 (also _Fixed.tsx:87)
tenors == <<"1W", "2W", "1M", "2M", "3M", "6M", "9M", "1Y", "18M", "2Y", "3Y", "4Y", "5Y">>

\* FXForwardCurvesTabDetailed.tsx:78 (also part_005:123)
tenorsDetailed ==
  <<"1W", "2W", "1M", "2M", "3M", "6M", "9M", "12M", "15M", "18M", "21M", "2Y", "3Y", "4Y", "5Y">>

\* tenorDays[tenor]; 0 stands for undefined (both are falsy)
tenorDays(tenor) ==
  CASE tenor = "1W" -> 7 [] tenor = "2W" -> 14 [] tenor = "1M" -> 30
    [] tenor = "2M" -> 60 [] tenor = "3M" -> 90 [] tenor = "6M" -> 180
    [] tenor = "9M" -> 270 [] tenor = "1Y" -> 365 [] tenor = "18M" -> 545
    [] tenor = "2Y" -> 730 [] tenor = "3Y" -> 1095 [] tenor = "4Y" -> 1460
    [] tenor = "5Y" -> 1825 [] OTHER -> 0

tenorDaysDetailed(tenor) ==
  CASE tenor = "1W" -> 7 [] tenor = "2W" -> 14 [] tenor = "1M" -> 30
    [] tenor = "2M" -> 60 [] tenor = "3M" -> 90 [] tenor = "6M" -> 180
    [] tenor = "9M" -> 270 [] tenor = "12M" -> 365 [] tenor = "15M" -> 455
    [] tenor = "18M" -> 545 [] tenor = "21M" -> 635 [] tenor = "2Y" -> 730
    [] tenor = "3Y" -> 1095 [] tenor = "4Y" -> 1460 [] tenor = "5Y" -> 1825
    [] OTHER -> 0

SpotTicker(pair) == pair \o " Curncy"

StandardTicker(pair, tenor) == pair \o tenor \o " Curncy"

\* a mixing resolver: falls back to the standard ticker where the NDF one is clamped
TermTickers_Fallback(pair, tenor) ==
  IF usesNDF(pair) /\ NDF_MAPPINGS[pair].format # ""
  THEN IF getNDFTicker(pair, tenor) # Null
       THEN <<getNDFTicker(pair, tenor)>>
       ELSE <<StandardTicker(pair, tenor)>>
  ELSE <<StandardTicker(pair, tenor)>>

\* what the loop of lines 103-118 pushes for one tenor of the ladder
TermTickers(pair, tenor) ==
  IF usesNDF(pair) /\ NDF_MAPPINGS[pair].format # ""
  THEN IF getNDFTicker(pair, tenor) # Null THEN <<getNDFTicker(pair, tenor)>> ELSE <<>>
  ELSE <<StandardTicker(pair, tenor)>>

RECURSIVE TermList(_, _, _)
TermList(pair, ladder, i) ==
  IF i > Len(ladder) THEN <<>>
  ELSE TermTickers(pair, ladder[i]) \o TermList(pair, ladder, i + 1)

\* the request of one pair: spot first, then its term tickers
Securities(pair, ladder) == <<SpotTicker(pair)>> \o TermList(pair, ladder, 1)

(***************************************************************************)
(* JavaScript values of a quote field and the arithmetic the code applies  *)
(* to them.  t is the kind of the value: "num" (a finite number, v),       *)
(* "nan", "undef" (field absent), "null", "str" (a non-numeric string).    *)
(***************************************************************************)
RECURSIVE Pow10(_)
Pow10(n) == IF n <= 0 THEN 1 ELSE 10 * Pow10(n - 1)

\* v * 10^e without trailing zeros in v
RECURSIVE D(_, _)
D(v, e) ==
  IF v = 0 THEN [t |-> "num", v |-> 0, e |-> 0]
  ELSE IF v % 10 = 0 THEN D(v \div 10, e + 1)
  ELSE [t |-> "num", v |-> v, e |-> e]

Zero == D(0, 0)
NaN == [t |-> "nan", v |-> 0, e |-> 0]
Undef == [t |-> "undef", v |-> 0, e |-> 0]
NullV == [t |-> "null", v |-> 0, e |-> 0]
Str == [t |-> "str", v |-> 0, e |-> 0]

\* typeof x === 'number'
IsNumberType(x) == x.t \in {"num", "nan"}

\* ToNumber: undefined and a non-numeric string give NaN, null gives 0
ToNum(x) == IF x.t = "num" THEN x ELSE IF x.t = "null" THEN Zero ELSE NaN

IsNaN(x) == ToNum(x).t = "nan"

\* x > 0, x <= 0 (false on NaN)
Gt0(x) == ToNum(x).t = "num" /\ ToNum(x).v > 0
Le0(x) == ToNum(x).t = "num" /\ ToNum(x).v <= 0

Min(a, b) == IF a <= b THEN a ELSE b

\* a + b, a - b on numbers (the code never adds a string)
Plus(a, b) ==
  IF IsNaN(a) \/ IsNaN(b) THEN NaN
  ELSE LET x == ToNum(a)
           y == ToNum(b)
           e == Min(x.e, y.e)
       IN D(x.v * Pow10(x.e - e) + y.v * Pow10(y.e - e), e)

Neg(a) == IF IsNaN(a) THEN NaN ELSE D(0 - ToNum(a).v, ToNum(a).e)

Minus(a, b) == Plus(a, Neg(b))

\* Math.abs
Abs(a) == IF IsNaN(a) THEN NaN ELSE IF ToNum(a).v < 0 THEN Neg(a) ELSE ToNum(a)

\* a < b (false on NaN)
Less(a, b) == ~IsNaN(a) /\ ~IsNaN(b) /\ Minus(a, b).v < 0

\* the decimal exponent of a pip factor
Log10(k) == IF k = 100 THEN 2 ELSE 4

\* a / k and a * k for the pip factors k
DivBy(a, k) == IF IsNaN(a) THEN NaN ELSE D(ToNum(a).v, ToNum(a).e - Log10(k))
TimesBy(a, k) == IF IsNaN(a) THEN NaN ELSE D(ToNum(a).v, ToNum(a).e + Log10(k))

\* x || '' on the LAST_UPDATE string
OrEmpty(x) == IF x = Null THEN "" ELSE x
OrElse(x, y) == IF x = Null \/ x = "" THEN y ELSE x

(***************************************************************************)
(* ForwardPoint construction, FXForwardCurvesTab.tsx:150-281.              *)
(***************************************************************************)
\* secData.success && secData.fields && typeof secData.fields.PX_LAST === 'number'
Usable(item) == item.success /\ item.fields /\ IsNumberType(item.PX_LAST)

\* days / 365.25 as the fraction n / d
Years(days) == [n |-> days * 100, d |-> 36525]

\* years > 0 ? ((forward / spot) ** (1 / years) - 1) * 100 : 0, kept symbolic
ImpliedYield(forward, spot, days) ==
  IF days > 0 THEN [zero |-> FALSE, forward |-> forward, spot |-> spot, days |-> days]
  ELSE [zero |-> TRUE, forward |-> Zero, spot |-> Zero, days |-> 0]

\* one factor for every pair
PipFactor_Flat(pair) == 10000

\* pair.includes('JPY') ? 100 : 10000
PipFactor(pair) == IF Includes(pair, "JPY") THEN 100 ELSE 10000

\* a first pass that reads the spot quote whatever its success flag
FindSpot_IgnoreSuccess(items, pair) ==
  LET hits == {i \in 1..Len(items) :
                 items[i].fields /\ IsNumberType(items[i].PX_LAST)
                 /\ items[i].security = SpotTicker(pair)}
  IN IF hits = {} THEN [rate |-> Zero, lastUpdate |-> ""]
     ELSE LET i == CHOOSE i \in hits : \A j \in hits : i <= j
          IN [rate |-> items[i].PX_LAST, lastUpdate |-> OrEmpty(items[i].LAST_UPDATE)]

\* first pass, lines 152-166: the first usable item whose security is the spot ticker
FindSpot(items, pair) ==
  LET hits == {i \in 1..Len(items) : Usable(items[i]) /\ items[i].security = SpotTicker(pair)}
  IN IF hits = {} THEN [rate |-> Zero, lastUpdate |-> ""]
     ELSE LET i == CHOOSE i \in hits : \A j \in hits : i <= j
          IN [rate |-> items[i].PX_LAST, lastUpdate |-> OrEmpty(items[i].LAST_UPDATE)]

\* lines 174-184
SpotPoint(pair, spot) ==
  [ tenor |-> 0, years |-> Years(0), spot |-> spot.rate, forward |-> spot.rate,
    points |-> Zero, impliedYield |-> ImpliedYield(spot.rate, spot.rate, 0),
    label |-> "Spot", ticker |-> SpotTicker(pair),
    bid |-> Undef, ask |-> Undef, lastUpdate |-> spot.lastUpdate ]

\* lines 199-212: the standard pattern first, then the NDF pattern
MatchTenor(pair, ticker) ==
  LET std == RegexTenor(ticker, pair, {"W", "M", "Y"})
  IN IF std # Null THEN std
     ELSE IF usesNDF(pair) /\ NDF_MAPPINGS[pair].format # ""
          THEN RegexTenor(ticker, NDF_MAPPINGS[pair].format, {"W", "M", "Y"})
          ELSE Null

\* an outright reading of the quoted value
ForwardRate_Outright(pair, spotRate, value) == value

\* lines 223-232: Spot + (Forward Points / Pip Factor)
ForwardRate(pair, spotRate, value) == Plus(spotRate, DivBy(value, PipFactor(pair)))

\* lines 249-261
TermPoint(pair, spot, item, tenor, days) ==
  LET forwardRate == ForwardRate(pair, spot.rate, item.PX_LAST)
  IN [ tenor |-> days, years |-> Years(days), spot |-> spot.rate, forward |-> forwardRate,
       points |-> item.PX_LAST, impliedYield |-> ImpliedYield(forwardRate, spot.rate, days),
       label |-> tenor, ticker |-> item.security,
       bid |-> item.PX_BID, ask |-> item.PX_ASK,
       lastUpdate |-> OrElse(item.LAST_UPDATE, spot.lastUpdate) ]

\* second pass, lines 187-264: what one item of securities_data appends to points
TermOf(pair, spot, item) ==
  IF ~Usable(item) THEN <<>>
  ELSE IF item.security = SpotTicker(pair) THEN <<>>
  ELSE LET tenor == MatchTenor(pair, item.security)
       IN IF tenor # Null /\ Gt0(spot.rate)
          THEN IF tenorDays(tenor) = 0 THEN <<>>
               ELSE <<TermPoint(pair, spot, item, tenor, tenorDays(tenor))>>
          ELSE <<>>

RECURSIVE SecondPass(_, _, _, _)
SecondPass(pair, spot, items, i) ==
  IF i > Len(items) THEN <<>>
  ELSE TermOf(pair, spot, items[i]) \o SecondPass(pair, spot, items, i + 1)

\* a filter that keeps term points only
ValidPoint_TermOnly(p) ==
  p.tenor > 0 /\ Gt0(p.forward) /\ ~IsNaN(p.forward) /\ ~IsNaN(p.points)

\* p.forward > 0 && !isNaN(p.forward) && !isNaN(p.points)
ValidPoint(p) == Gt0(p.forward) /\ ~IsNaN(p.forward) /\ ~IsNaN(p.points)

\* the points left in the order they were pushed
SortByTenor_PushOrder(ps) == ps

\* Array.prototype.sort((a, b) => a.tenor - b.tenor): stable
RECURSIVE InsertByTenor(_, _)
InsertByTenor(sorted, p) ==
  IF sorted = <<>> THEN <<p>>
  ELSE IF Head(sorted).tenor <= p.tenor
       THEN <<Head(sorted)>> \o InsertByTenor(Tail(sorted), p)
       ELSE <<p>> \o sorted

RECURSIVE SortByTenor(_)
SortByTenor(ps) ==
  IF ps = <<>> THEN <<>>
  ELSE InsertByTenor(SortByTenor(SubSeq(ps, 1, Len(ps) - 1)), ps[Len(ps)])

NoCurve == [set |-> FALSE, points |-> <<>>]

\* lines 150-281 for one pair: the entry put in newForwardData, if any
BuildCurve(pair, reply) ==
  IF ~reply.hasData THEN NoCurve
  ELSE LET spot == FindSpot(reply.items, pair)
       IN IF Le0(spot.rate) THEN NoCurve
          ELSE LET points == <<SpotPoint(pair, spot)>> \o SecondPass(pair, spot, reply.items, 1)
                   validPoints == SortByTenor(SelectSeq(points, ValidPoint))
               IN IF Len(validPoints) > 0
                  THEN [set |-> TRUE, points |-> validPoints]
                  ELSE NoCurve

(***************************************************************************)
(* The other fetchForwardData implementations of the repository.           *)
(***************************************************************************)
\* FXForwardCurvesTab_Fixed.tsx:188-212: points or outright rate, by the value/spot ratio
FixedReading(pair, spotRate, value) ==
  LET tenTimesValue == D(Abs(value).v, Abs(value).e + 1)
      tenTimesSpot == D(spotRate.v, spotRate.e + 1)
      \* valueToSpotRatio > 0.1 && valueToSpotRatio < 10, spotRate being positive
      looksOutright == Less(spotRate, tenTimesValue) /\ Less(Abs(value), tenTimesSpot)
  IN IF looksOutright
     THEN [forward |-> value,
           points |-> TimesBy(Minus(value, spotRate), PipFactor(pair))]
     ELSE [forward |-> Plus(spotRate, DivBy(value, PipFactor(pair))),
           points |-> value]

\* FXForwardCurvesTab_Fixed.tsx:165-245
TermOfFixed(pair, spot, item) ==
  IF ~Usable(item) THEN <<>>
  ELSE IF item.security = SpotTicker(pair) THEN <<>>
  ELSE LET tenor == RegexTenor(item.security, pair, {"W", "M", "Y"})
       IN IF tenor # Null /\ Gt0(spot.rate)
          THEN IF tenorDays(tenor) = 0 THEN <<>>
               ELSE LET r == FixedReading(pair, spot.rate, item.PX_LAST)
                        days == tenorDays(tenor)
                    IN << [ tenor |-> days, years |-> Years(days), spot |-> spot.rate,
                            forward |-> r.forward, points |-> r.points,
                            impliedYield |-> ImpliedYield(r.forward, spot.rate, days),
                            label |-> tenor, ticker |-> item.security,
                            bid |-> item.PX_BID, ask |-> item.PX_ASK,
                            lastUpdate |-> OrElse(item.LAST_UPDATE, spot.lastUpdate) ] >>
          ELSE <<>>

RECURSIVE SecondPassFixed(_, _, _, _)
SecondPassFixed(pair, spot, items, i) ==
  IF i > Len(items) THEN <<>>
  ELSE TermOfFixed(pair, spot, items[i]) \o SecondPassFixed(pair, spot, items, i + 1)

\* FXForwardCurvesTab_Fixed.tsx:128-257
BuildCurveFixed(pair, reply) ==
  IF ~reply.hasData THEN NoCurve
  ELSE LET spot == FindSpot(reply.items, pair)
       IN IF Le0(spot.rate) THEN NoCurve
          ELSE LET points == <<SpotPoint(pair, spot)>> \o SecondPassFixed(pair, spot, reply.items, 1)
                   validPoints == SortByTenor(SelectSeq(points, ValidPoint))
               IN IF Len(validPoints) > 0
                  THEN [set |-> TRUE, points |-> validPoints]
                  ELSE NoCurve

\* secData.success && secData.fields && secData.fields.PX_LAST !== null
UsableLoose(item) == item.success /\ item.fields /\ item.PX_LAST.t # "null"

\* the spot point of the single-pass loops (Detailed:133-148, part_005:191-207)
SpotPointLoose(item) ==
  [ tenor |-> 0, years |-> Years(0), spot |-> item.PX_LAST, forward |-> item.PX_LAST,
    points |-> Zero, impliedYield |-> ImpliedYield(item.PX_LAST, item.PX_LAST, 0),
    label |-> "Spot", ticker |-> item.security,
    bid |-> item.PX_BID, ask |-> item.PX_ASK, lastUpdate |-> item.LAST_UPDATE ]

\* tenorDays[tenor] || 30
DaysOr30(tenor) == IF tenorDaysDetailed(tenor) = 0 THEN 30 ELSE tenorDaysDetailed(tenor)

\* FXForwardCurvesTabDetailed.tsx:150-185 (points reading),
\* part_005:209-270 (outright reading)
TermPointLoose(outright, pair, spot, item, tenor) ==
  LET days == DaysOr30(tenor)
      forward == IF outright THEN item.PX_LAST
                 ELSE Plus(spot.rate, DivBy(item.PX_LAST, PipFactor(pair)))
      points == IF outright THEN TimesBy(Minus(item.PX_LAST, spot.rate), PipFactor(pair))
                ELSE item.PX_LAST
  IN [ tenor |-> days, years |-> Years(days), spot |-> spot.rate,
       forward |-> forward, points |-> points,
       impliedYield |-> ImpliedYield(forward, spot.rate, days),
       label |-> tenor, ticker |-> item.security,
       bid |-> item.PX_BID, ask |-> item.PX_ASK,
       lastUpdate |-> OrElse(item.LAST_UPDATE, spot.lastUpdate) ]

\* the loop over securities_data, carrying spotRate / spotLastUpdate
RECURSIVE LoosePass(_, _, _, _, _)
LoosePass(outright, pair, spot, items, i) ==
  IF i > Len(items) THEN <<>>
  ELSE LET item == items[i]
       IN IF ~UsableLoose(item) THEN LoosePass(outright, pair, spot, items, i + 1)
          ELSE IF item.security = SpotTicker(pair)
          THEN <<SpotPointLoose(item)>>
               \o LoosePass(outright, pair,
                            [rate |-> item.PX_LAST, lastUpdate |-> OrEmpty(item.LAST_UPDATE)],
                            items, i + 1)
          ELSE LET tenor == RegexTenor(item.security, pair, {"W", "M", "Y"})
               IN IF tenor # Null /\ Gt0(spot.rate)
                  THEN <<TermPointLoose(outright, pair, spot, item, tenor)>>
                       \o LoosePass(outright, pair, spot, items, i + 1)
                  ELSE LoosePass(outright, pair, spot, items, i + 1)

\* FXForwardCurvesTabDetailed.tsx:118-196
BuildCurveDetailed(pair, reply) ==
  IF ~reply.hasData THEN NoCurve
  ELSE LET points == SortByTenor(
                       LoosePass(FALSE, pair, [rate |-> Zero, lastUpdate |-> ""], reply.items, 1))
       IN IF Len(points) > 0 THEN [set |-> TRUE, points |-> points] ELSE NoCurve

\* part_005:168-179
FindSpotLoose(items, pair) ==
  LET hits == {i \in 1..Len(items) :
                 UsableLoose(items[i]) /\ items[i].security = SpotTicker(pair)}
  IN IF hits = {} THEN [rate |-> Zero, lastUpdate |-> ""]
     ELSE LET i == CHOOSE i \in hits : \A j \in hits : i <= j
          IN [rate |-> items[i].PX_LAST, lastUpdate |-> OrEmpty(items[i].LAST_UPDATE)]

\* p.forward != null && !isNaN(p.forward) && p.points != null && !isNaN(p.points)
ValidPointLoose(p) ==
  /\ p.forward.t \notin {"null", "undef"} /\ ~IsNaN(p.forward)
  /\ p.points.t \notin {"null", "undef"} /\ ~IsNaN(p.points)

\* part_005:163-299
BuildCurveP005(pair, reply) ==
  IF ~reply.hasData THEN NoCurve
  ELSE LET points == LoosePass(TRUE, pair, FindSpotLoose(reply.items, pair), reply.items, 1)
           validPoints == SortByTenor(SelectSeq(points, ValidPointLoose))
       IN IF Len(validPoints) > 0 THEN [set |-> TRUE, points |-> validPoints] ELSE NoCurve

Variants == {"main", "fixed", "detailed", "p005"}

BuildCurveOf(variant, pair, reply) ==
  CASE variant = "main" -> BuildCurve(pair, reply)
    [] variant = "fixed" -> BuildCurveFixed(pair, reply)
    [] variant = "detailed" -> BuildCurveDetailed(pair, reply)
    [] variant = "p005" -> BuildCurveP005(pair, reply)

RECURSIVE StandardList(_, _, _)
StandardList(pair, ladder, i) ==
  IF i > Len(ladder) THEN <<>>
  ELSE <<StandardTicker(pair, ladder[i])>> \o StandardList(pair, ladder, i + 1)

\* the securities each implementation requests for a pair
RequestOf(variant, pair) ==
  CASE variant = "main" -> Securities(pair, tenors)
    [] variant = "fixed" -> <<SpotTicker(pair)>> \o StandardList(pair, tenors, 1)
    [] OTHER -> <<SpotTicker(pair)>> \o StandardList(pair, tenorsDetailed, 1)

\* what one request of one pair comes to: a thrown error (HTTP status not OK, a
\* rejected fetch), or the curve to put in newForwardData and the data source
HandleReply_FailOnBadItem(variant, pair, reply) ==
  IF ~reply.ok \/ \E i \in 1..Len(reply.items) : ~reply.items[i].success
  THEN [threw |-> TRUE, curve |-> NoCurve, source |-> Null]
  ELSE [threw |-> FALSE, curve |-> BuildCurveOf(variant, pair, reply), source |-> reply.source]

\* a handler that takes a failed request for an empty response
HandleReply_SwallowFailure(variant, pair, reply) ==
  IF ~reply.ok
  THEN [threw |-> FALSE, curve |-> NoCurve, source |-> Null]
  ELSE [threw |-> FALSE, curve |-> BuildCurveOf(variant, pair, reply), source |-> reply.source]

HandleReply(variant, pair, reply) ==
  IF ~reply.ok
  THEN [threw |-> TRUE, curve |-> NoCurve, source |-> Null]
  ELSE [threw |-> FALSE, curve |-> BuildCurveOf(variant, pair, reply), source |-> reply.source]

(***************************************************************************)
(* YieldCurvesTab.fetchCurveData, one currency.                            *)
(***************************************************************************)
\* DATABASE_CURVES of the yield curve database service (part_001:103-114)
YieldInstruments(currency) ==
  IF currency = "CHF"
  THEN << [ticker |-> "SSARON Index", tenor |-> 1, label |-> "ON", type |-> "money_market"],
          [ticker |-> "SFSNT1 BGNL Curncy", tenor |-> 365, label |-> "1Y", type |-> "ois"],
          [ticker |-> "SFSNT2 BGNL Curncy", tenor |-> 730, label |-> "2Y", type |-> "ois"],
          [ticker |-> "SFSNT3 BGNL Curncy", tenor |-> 1095, label |-> "3Y", type |-> "ois"],
          [ticker |-> "SFSNT5 BGNL Curncy", tenor |-> 1825, label |-> "5Y", type |-> "ois"],
          [ticker |-> "SFSNT10 BGNL Curncy", tenor |-> 3650, label |-> "10Y", type |-> "ois"] >>
  ELSE <<>>

\* getYieldCurveConfig(currency) is not null
HasYieldConfig(currency) == currency \in {"CHF"}

\* YieldCurvesTab.tsx:115-134: the item at position index (1-based here) is paired
\* with config.instruments[index]
YieldPointOf(instruments, item, index) ==
  IF item.success /\ item.fields /\ item.PX_LAST.t # "undef"
  THEN IF index > Len(instruments) THEN <<>>
       ELSE LET instrument == instruments[index]
            IN << [ tenor |-> instrument.tenor, years |-> [n |-> instrument.tenor, d |-> 365],
                    rate |-> item.PX_LAST, label |-> instrument.label,
                    ticker |-> instrument.ticker, type |-> instrument.type,
                    bid |-> item.PX_BID, ask |-> item.PX_ASK,
                    lastUpdate |-> item.LAST_UPDATE ] >>
  ELSE <<>>

RECURSIVE YieldPoints(_, _, _)
YieldPoints(instruments, items, i) ==
  IF i > Len(items) THEN <<>>
  ELSE YieldPointOf(instruments, items[i], i) \o YieldPoints(instruments, items, i + 1)

\* YieldCurvesTab.tsx:111-143
BuildYieldCurve(currency, reply) ==
  IF ~(reply.success /\ reply.hasData) THEN NoCurve
  ELSE LET points == SortByTenor(YieldPoints(YieldInstruments(currency), reply.items, 1))
       IN IF Len(points) > 0 THEN [set |-> TRUE, points |-> points] ELSE NoCurve

\* YieldCurvesTab.tsx:92-143 for one currency
HandleYieldReply(currency, reply) ==
  IF ~reply.ok
  THEN [threw |-> TRUE, curve |-> NoCurve]
  ELSE [threw |-> FALSE, curve |-> BuildYieldCurve(currency, reply)]

(***************************************************************************)
(* Bounds and the inputs drawn within them.                                *)
(***************************************************************************)
\* items of one gateway response
MaxItems == 3
\* items of one yield-curve response
MaxYieldItems == 3
\* calls of fetchForwardData in one run of the component
MaxCycles == 3

SeqsUpTo(S, n) == UNION {[1..k -> S] : k \in 0..n}

Q(security, success, last) ==
  [ security |-> security, success |-> success, fields |-> TRUE, PX_LAST |-> last,
    PX_BID |-> Undef, PX_ASK |-> Undef, LAST_UPDATE |-> Null ]

QFull(security, last, bid, ask, upd) ==
  [ security |-> security, success |-> TRUE, fields |-> TRUE, PX_LAST |-> last,
    PX_BID |-> bid, PX_ASK |-> ask, LAST_UPDATE |-> upd ]

\* the pairs whose responses are explored: a standard pair, a JPY pair, an NDF pair
PipePairs == {"EURUSD", "USDJPY", "USDINR"}

\* candidate items of a response for a pair: the spot quote (valid, failed,
\* non-numeric, non-positive), requested term quotes (valid, failed, without
\* PX_LAST, driving the forward rate below zero), securities never requested and
\* a tenor label no tenorDays table holds
ItemsOf(pair) ==
  CASE pair = "EURUSD" ->
         { QFull("EURUSD Curncy", D(10850, -4), Undef, Undef, "09:30"),
           Q("EURUSD Curncy", FALSE, D(10850, -4)),
           Q("EURUSD Curncy", TRUE, Str),
           Q("EURUSD Curncy", TRUE, Zero),
           QFull("EURUSD1M Curncy", D(-105, -1), D(-106, -1), D(-104, -1), Null),
           Q("EURUSD1M Curncy", FALSE, D(-105, -1)),
           Q("EURUSD1Y Curncy", TRUE, D(11, -1)),
           Q("EURUSD2W Curncy", TRUE, Undef),
           Q("EURUSD5Y Curncy", TRUE, D(-20000, 0)),
           Q("XEURUSD3M Curncy", TRUE, D(2, 0)),
           Q("EURUSD35D Curncy", TRUE, D(3, 0)),
           Q("EURUSD4M Curncy", TRUE, D(5, 0)) }
    [] pair = "USDJPY" ->
         { Q("USDJPY Curncy", TRUE, D(11000, -2)),
           Q("USDJPY Curncy", FALSE, D(11000, -2)),
           Q("USDJPY1M Curncy", TRUE, D(250, -1)),
           Q("USDJPY1M Curncy", FALSE, D(250, -1)) }
    [] pair = "USDINR" ->
         { Q("USDINR Curncy", TRUE, D(878038, -4)),
           Q("USDINR Curncy", FALSE, D(878038, -4)),
           Q("IRN1M Curncy", TRUE, D(153, -1)),
           Q("IRN1W Curncy", TRUE, Undef),
           Q("IRN9M Curncy", TRUE, D(90, 0)),
           Q("USDINR1M Curncy", TRUE, D(153, -1)) }

FailedReply == [ok |-> FALSE, hasData |-> FALSE, source |-> Null, items |-> <<>>]
EmptyReply == [ok |-> TRUE, hasData |-> FALSE, source |-> Null, items |-> <<>>]
DataReply(items) == [ok |-> TRUE, hasData |-> TRUE, source |-> "Bloomberg Terminal", items |-> items]

RepliesOf(pair) ==
  {FailedReply, EmptyReply} \cup {DataReply(items) : items \in SeqsUpTo(ItemsOf(pair), MaxItems)}

YieldItems ==
  { QFull("SSARON Index", D(45, -2), D(44, -2), D(46, -2), Null),
    Q("SSARON Index", FALSE, D(45, -2)),
    QFull("SFSNT1 BGNL Curncy", D(52, -2), D(51, -2), D(53, -2), Null),
    Q("SFSNT1 BGNL Curncy", TRUE, Undef),
    Q("SSARON Index", TRUE, NullV),
    Q("SSARON Index", TRUE, D(-75, -2)),
    QFull("SFSNT2 BGNL Curncy", D(61, -2), D(60, -2), D(62, -2), Null) }

YieldReplies ==
  { [ok |-> FALSE, success |-> FALSE, hasData |-> FALSE, items |-> <<>>],
    [ok |-> TRUE, success |-> FALSE, hasData |-> TRUE, items |-> <<>>] }
  \cup { [ok |-> TRUE, success |-> TRUE, hasData |-> TRUE, items |-> items] :
           items \in SeqsUpTo(YieldItems, MaxYieldItems) }

\* the pairs offered by the selector in the runs of the component
UiPairs == {"EURUSD", "USDJPY"}

\* the responses the gateway gives in the runs of the component
UiRepliesOf(pair) ==
  IF pair = "EURUSD"
  THEN { FailedReply,
         DataReply(<< Q("EURUSD Curncy", TRUE, D(10850, -4)),
                      Q("EURUSD1M Curncy", TRUE, D(-105, -1)) >>),
         DataReply(<< Q("EURUSD1M Curncy", TRUE, D(-105, -1)) >>) }
  ELSE { FailedReply,
         DataReply(<< Q("USDJPY Curncy", TRUE, D(11000, -2)),
                      Q("USDJPY1M Curncy", TRUE, D(250, -1)) >>),
         DataReply(<< Q("USDJPY1M Curncy", TRUE, D(250, -1)) >>) }

\* the pairs and ladders the ticker list is built for
\* the pairs of getPairColor (lines 54-75) and of NDF_MAPPINGS
KnownPairs ==
  { "EURUSD", "GBPUSD", "USDJPY", "USDCHF", "AUDUSD", "USDCAD", "NZDUSD", "USDNOK",
    "USDSEK", "USDSGD", "USDBRL", "USDMXN", "USDCNH", "USDKRW", "USDINR", "USDTRY",
    "USDCZK", "USDHUF", "USDPLN", "USDRON", "USDZAR", "USDTHB", "USDPHP",
    "EURGBP", "EURJPY", "EURCHF", "EURAUD", "EURCAD", "EURNZD", "EURNOK", "EURSEK",
    "EURSGD", "EURCZK", "EURHUF", "EURPLN", "EURTRY", "EURZAR",
    "GBPJPY", "GBPCHF", "GBPAUD", "GBPCAD", "GBPNZD", "GBPNOK", "GBPSEK", "GBPSGD",
    "XAGUSD", "XAUUSD" } \cup DOMAIN NDF_MAPPINGS

\* XXXYYY is a pair no table of the repository holds
ResolvePairs == DOMAIN NDF_MAPPINGS \cup {"EURUSD", "USDJPY", "USDMXN", "XXXYYY"}
Ladders == {tenors, tenorsDetailed, <<>>}

(***************************************************************************)
(* Values of the variables a specification does not use.                   *)
(***************************************************************************)
UiIdle ==
  /\ selectedPairs = <<>> /\ forwardData = <<>> /\ loading = FALSE /\ error = Null
  /\ lastUpdate = 0 /\ dataSource = "" /\ cycles = <<>> /\ clock = 0
ResolveIdle == r_pair = "" /\ r_ladder = <<>> /\ r_i = 0 /\ securities = <<>>
PipeIdle ==
  /\ p_variant = "" /\ p_pair = "" /\ p_reply = EmptyReply /\ p_pc = "idle"
  /\ p_out = [threw |-> FALSE, curve |-> NoCurve, source |-> Null]
YieldIdle ==
  /\ y_ccy = "" /\ y_reply = [ok |-> TRUE, success |-> FALSE, hasData |-> FALSE, items |-> <<>>]
  /\ y_pc = "idle" /\ y_out = [threw |-> FALSE, curve |-> NoCurve]

(***************************************************************************)
(* SpecResolve: the ticker-list loop, tenor by tenor.                      *)
(***************************************************************************)
InitResolve ==
  /\ r_pair \in ResolvePairs
  /\ r_ladder \in Ladders
  /\ r_i = 0
  /\ securities = <<SpotTicker(r_pair)>>
  /\ UiIdle /\ PipeIdle /\ YieldIdle

ResolveNext ==
  /\ r_i < Len(r_ladder)
  /\ securities' = securities \o TermTickers(r_pair, r_ladder[r_i + 1])
  /\ r_i' = r_i + 1
  /\ UNCHANGED <<r_pair, r_ladder, uiVars, pipeVars, yieldVars>>

SpecResolve == InitResolve /\ [][ResolveNext]_vars

(***************************************************************************)
(* SpecPipe: one request of one pair, in each implementation.              *)
(***************************************************************************)
InitPipe ==
  /\ p_variant \in Variants
  /\ p_pair \in PipePairs
  /\ p_reply \in RepliesOf(p_pair)
  /\ p_pc = "requested"
  /\ p_out = [threw |-> FALSE, curve |-> NoCurve, source |-> Null]
  /\ UiIdle /\ ResolveIdle /\ YieldIdle

PipeReply ==
  /\ p_pc = "requested"
  /\ p_out' = HandleReply(p_variant, p_pair, p_reply)
  /\ p_pc' = "done"
  /\ UNCHANGED <<p_variant, p_pair, p_reply, uiVars, resolveVars, yieldVars>>

SpecPipe == InitPipe /\ [][PipeReply]_vars

(***************************************************************************)
(* SpecYield: one request of one currency of YieldCurvesTab.               *)
(***************************************************************************)
InitYield ==
  /\ y_ccy \in {"CHF"}
  /\ y_reply \in YieldReplies
  /\ y_pc = "requested"
  /\ y_out = [threw |-> FALSE, curve |-> NoCurve]
  /\ UiIdle /\ ResolveIdle /\ PipeIdle

YieldReply ==
  /\ y_pc = "requested"
  /\ HasYieldConfig(y_ccy)
  /\ y_out' = HandleYieldReply(y_ccy, y_reply)
  /\ y_pc' = "done"
  /\ UNCHANGED <<y_ccy, y_reply, uiVars, resolveVars, pipeVars>>

SpecYield == InitYield /\ [][YieldReply]_vars

(***************************************************************************)
(* Spec: the FXForwardCurvesTab component.  fetchForwardData runs from its *)
(* call to its first await, and from each gateway response to the next     *)
(* await or to its end; calls interleave at the awaits.                    *)
(***************************************************************************)
Range(seq) == {seq[i] : i \in 1..Len(seq)}

\* lines 39-50, followed by the effect of lines 686-690 on mount
Init ==
  /\ selectedPairs = <<"EURUSD">>
  /\ forwardData = <<>>
  /\ loading = TRUE
  /\ error = Null
  /\ lastUpdate = 0
  /\ dataSource = ""
  /\ cycles = << [status |-> "fetching", sel |-> <<"EURUSD">>, idx |-> 1, acc |-> <<>>,
                  replies |-> <<>>, out |-> <<>>] >>
  /\ clock = 0
  /\ ResolveIdle /\ PipeIdle /\ YieldIdle

\* lines 79-85 and the first request (line 126) of a call that captured sel
StartCycle(sel) ==
  /\ Len(cycles) < MaxCycles
  /\ loading' = TRUE
  /\ error' = Null
  /\ cycles' = Append(cycles, [status |-> "fetching", sel |-> sel, idx |-> 1, acc |-> <<>>,
                              replies |-> <<>>, out |-> <<>>])
  /\ UNCHANGED <<forwardData, lastUpdate, dataSource, clock>>

\* lines 727-735, then the effect of lines 686-690
TogglePair(pair) ==
  LET newSet == IF pair \in Range(selectedPairs)
                THEN SelectSeq(selectedPairs, LAMBDA x : x # pair)
                ELSE Append(selectedPairs, pair)
  IN /\ selectedPairs' = newSet
     /\ IF Len(newSet) > 0
        THEN StartCycle(newSet)
        ELSE UNCHANGED <<forwardData, loading, error, lastUpdate, dataSource, cycles, clock>>
     /\ UNCHANGED <<resolveVars, pipeVars, yieldVars>>

\* lines 799-801: the Refresh button
Refresh ==
  /\ ~loading
  /\ Len(selectedPairs) > 0
  /\ StartCycle(selectedPairs)
  /\ UNCHANGED <<selectedPairs, resolveVars, pipeVars, yieldVars>>

\* a failing pair that empties the map built so far
Accumulate_ResetOnMiss(acc, pair, curve) ==
  IF curve.set THEN (pair :> curve.points) @@ acc ELSE <<>>

\* lines 278-280: newForwardData.set(pair, validPoints) when there are valid points
Accumulate(acc, pair, curve) ==
  IF curve.set THEN (pair :> curve.points) @@ acc ELSE acc

\* a commit that keeps the entries of the map shown before
Committed_Merge(acc, previous) == acc @@ previous

\* line 284: setForwardData(newForwardData) replaces the map shown before
Committed(acc, previous) == acc

\* a call that ends without resetting the flag
LoadingAfterFinally_Kept(flag) == flag

\* lines 292-294: finally { setLoading(false) }
LoadingAfterFinally(flag) == FALSE

\* a catch block that shows the curves built before the failure
Caught_CommitPartial(previous, acc) == acc @@ previous

\* lines 288-291: the catch block sets the error and leaves the map shown before;
\* newForwardData is dropped
Caught(previous, acc) == previous

\* lines 138-295 once the request of call c for pair got reply, which came to r:
\* the catch and finally blocks, or the next pair of the loop, or the commit of
\* lines 284-285.  replies records the responses the call has received, out the
\* map it passed to setForwardData.
Settle(c, pair, reply, r) ==
  /\ IF r.threw
     THEN /\ error' = "HTTP error"
          /\ loading' = LoadingAfterFinally(loading)
          /\ forwardData' = Caught(forwardData, cycles[c].acc)
          /\ cycles' = [cycles EXCEPT ![c].status = "failed",
                                      ![c].replies = Append(cycles[c].replies, reply)]
          /\ UNCHANGED <<lastUpdate, dataSource, clock>>
     ELSE /\ dataSource' = IF r.source # Null /\ r.source # "" THEN r.source ELSE dataSource
          /\ IF cycles[c].idx < Len(cycles[c].sel)
             THEN /\ cycles' = [cycles EXCEPT
                                  ![c].idx = cycles[c].idx + 1,
                                  ![c].acc = Accumulate(cycles[c].acc, pair, r.curve),
                                  ![c].replies = Append(cycles[c].replies, reply)]
                  /\ UNCHANGED <<forwardData, loading, error, lastUpdate, clock>>
             ELSE /\ forwardData' = Committed(Accumulate(cycles[c].acc, pair, r.curve),
                                              forwardData)
                  /\ clock' = clock + 1
                  /\ lastUpdate' = clock + 1
                  /\ loading' = LoadingAfterFinally(loading)
                  /\ cycles' = [cycles EXCEPT
                                  ![c].status = "committed",
                                  ![c].acc = Accumulate(cycles[c].acc, pair, r.curve),
                                  ![c].replies = Append(cycles[c].replies, reply),
                                  ![c].out = Committed(Accumulate(cycles[c].acc, pair, r.curve),
                                                       forwardData)]
                  /\ UNCHANGED error
  /\ UNCHANGED <<selectedPairs, resolveVars, pipeVars, yieldVars>>

\* what fetchForwardData makes of each response to the request of a pair
UiOutcome ==
  [pair \in UiPairs |-> [reply \in UiRepliesOf(pair) |-> HandleReply("main", pair, reply)]]

\* lines 126-295: the response to the request in flight of call c
GatewayReply(c, reply) ==
  /\ cycles[c].status = "fetching"
  /\ Settle(c, cycles[c].sel[cycles[c].idx], reply,
            UiOutcome[cycles[c].sel[cycles[c].idx]][reply])

Next ==
  \/ \E pair \in UiPairs : TogglePair(pair)
  \/ Refresh
  \/ \E c \in 1..Len(cycles) :
       \E reply \in UiRepliesOf(cycles[c].sel[cycles[c].idx]) : GatewayReply(c, reply)

Spec == Init /\ [][Next]_vars

\* the request in flight of call c returns or fails
ReplyTo(c) ==
  /\ c <= Len(cycles)
  /\ \E reply \in UiRepliesOf(cycles[c].sel[cycles[c].idx]) : GatewayReply(c, reply)

\* every gateway request eventually returns or fails
SpecLive == Init /\ [][Next]_vars /\ \A c \in 1..MaxCycles : WF_vars(ReplyTo(c))

(***************************************************************************)
(* Properties.                                                             *)
(***************************************************************************)
PipePoints == p_out.curve.points
PipeItems == p_reply.items
PipeDone(variant) == p_pc = "done" /\ p_variant = variant

\* C1: only the latest-started call of fetchForwardData ever commits to
\* forwardData: a call that another call has superseded never commits.
C1_OnlyLatestCycleCommits ==
  [][\A c \in 1..Len(cycles) :
       (cycles[c].status = "fetching" /\ cycles'[c].status = "committed")
         => c = Len(cycles)]_vars

\* every quote of the spot ticker in the response is unusable: failed, without a
\* numeric PX_LAST, or not positive (none at all included)
AnchorInvalid ==
  \A i \in 1..Len(PipeItems) :
    PipeItems[i].security = SpotTicker(p_pair)
      => ~(/\ PipeItems[i].success /\ PipeItems[i].fields
           /\ PipeItems[i].PX_LAST.t = "num" /\ PipeItems[i].PX_LAST.v > 0)

\* C2: when the spot quote of a pair is missing, failed, non-numeric or
\* non-positive, FXForwardCurvesTab puts no curve for the pair in the output and
\* builds no point from its term quotes.
C2_NoCurveWithoutAnchor ==
  (PipeDone("main") /\ AnchorInvalid) => (~p_out.curve.set /\ PipePoints = <<>>)

\* a failed spot quote beside a successful, numeric quote of a requested term ticker
C2_Witness ==
  /\ PipeDone("main") /\ AnchorInvalid /\ ~p_out.curve.set
  /\ \E i \in 1..Len(PipeItems) :
       PipeItems[i].security = SpotTicker(p_pair) /\ ~PipeItems[i].success
  /\ \E i \in 1..Len(PipeItems) :
       /\ PipeItems[i].security \in Range(Tail(RequestOf("main", p_pair)))
       /\ PipeItems[i].success /\ PipeItems[i].PX_LAST.t = "num"

AllTenorLabels == Range(tenors) \cup Range(tenorsDetailed)

\* C3: for a pair that uses NDF tickers, every term ticker of the request is
\* <format><tenor> Curncy for a tenor of the ladder, and none is the standard
\* <pair><tenor> Curncy.
C3_NDFTickersOnly ==
  usesNDF(r_pair) =>
    \A k \in 2..Len(securities) :
      /\ \E t \in Range(r_ladder) :
           securities[k] = NDF_MAPPINGS[r_pair].format \o t \o " Curncy"
      /\ \A t \in AllTenorLabels : securities[k] # r_pair \o t \o " Curncy"

\* the finished list of USDINR: the spot ticker and six IRN tickers
C3_Witness ==
  /\ r_pair = "USDINR" /\ r_ladder = tenors /\ r_i = Len(r_ladder)
  /\ Len(securities) = 7
  /\ securities[7] = "IRN6M Curncy"

\* days of a tenor label, by the tenorDays tables of the components
LadderDays(t) == IF tenorDays(t) # 0 THEN tenorDays(t) ELSE tenorDaysDetailed(t)

WithinCoverage(pair, t) == LadderDays(t) <= LadderDays(getMaxNDFTenor(pair))

\* C4: for a pair that uses NDF tickers and any ladder, no term ticker of the
\* request is for a tenor beyond the maximum tenor of the coverage string, and the
\* request has one ticker per ladder tenor within coverage plus the spot ticker.
C4_CoverageClamp ==
  (usesNDF(r_pair) /\ r_i = Len(r_ladder)) =>
    /\ \A k \in 2..Len(securities) : \A t \in Range(r_ladder) :
         securities[k] = NDF_MAPPINGS[r_pair].format \o t \o " Curncy"
           => WithinCoverage(r_pair, t)
    /\ Len(securities) =
         1 + Cardinality({i \in 1..Len(r_ladder) : WithinCoverage(r_pair, r_ladder[i])})

\* C5: a pair declared to have no term market (empty format, coverage 'none')
\* is requested with its spot ticker only.
C5_NoTermMarketAnchorOnly ==
  (/\ r_i = Len(r_ladder) /\ HasMapping(r_pair)
   /\ NDF_MAPPINGS[r_pair].format = "" /\ NDF_MAPPINGS[r_pair].coverage = "none")
    => securities = <<SpotTicker(r_pair)>>

\* C6: every term point of a curve comes from a security that is exactly the
\* ticker resolved and requested for the point's tenor.
C6_PointsOnlyFromRequestedTickers ==
  PipeDone("main") =>
    \A k \in 1..Len(PipePoints) :
      PipePoints[k].tenor > 0 =>
        /\ PipePoints[k].ticker \in Range(RequestOf("main", p_pair))
        /\ TermTickers(p_pair, PipePoints[k].label) = <<PipePoints[k].ticker>>

\* C7: every point of a yield curve carries the rate, bid and ask of the
\* response item whose security is the point's ticker.
C7_QuoteMatchedByTicker ==
  y_pc = "done" =>
    \A k \in 1..Len(y_out.curve.points) :
      \E i \in 1..Len(y_reply.items) :
        /\ y_reply.items[i].security = y_out.curve.points[k].ticker
        /\ y_reply.items[i].PX_LAST = y_out.curve.points[k].rate
        /\ y_reply.items[i].PX_BID = y_out.curve.points[k].bid
        /\ y_reply.items[i].PX_ASK = y_out.curve.points[k].ask

\* the successful numeric quotes of a security in the response
GoodQuotes(security) ==
  {i \in 1..Len(PipeItems) :
     /\ PipeItems[i].security = security /\ PipeItems[i].success
     /\ PipeItems[i].fields /\ PipeItems[i].PX_LAST.t = "num"}

\* every quote of the spot ticker is successful, numeric and positive, and there is one
AnchorValid ==
  /\ GoodQuotes(SpotTicker(p_pair)) # {}
  /\ \A i \in 1..Len(PipeItems) :
       PipeItems[i].security = SpotTicker(p_pair)
         => (i \in GoodQuotes(SpotTicker(p_pair)) /\ PipeItems[i].PX_LAST.v > 0)

SpotQuoted == PipeItems[CHOOSE i \in GoodQuotes(SpotTicker(p_pair)) : TRUE].PX_LAST

LiteralPipFactor == IF p_pair = "USDJPY" THEN 100 ELSE 10000

\* C8: a response that omits requested tickers, or returns them failed or
\* without a numeric PX_LAST, sets no error; such a ticker gives no point, and
\* every other requested quote (with a positive forward rate) still gives its
\* point in the pair's curve.
C8_AbsentQuotesAreNotErrors ==
  (PipeDone("main") /\ p_reply.ok) =>
    /\ ~p_out.threw
    /\ \A n \in 2..Len(RequestOf("main", p_pair)) :
         LET T == RequestOf("main", p_pair)[n]
         IN /\ GoodQuotes(T) = {}
                 => \A k \in 1..Len(PipePoints) : PipePoints[k].ticker # T
            /\ AnchorValid
                 => \A i \in GoodQuotes(T) :
                      Gt0(Plus(SpotQuoted, DivBy(PipeItems[i].PX_LAST, LiteralPipFactor)))
                        => \E k \in 1..Len(PipePoints) :
                             /\ PipePoints[k].ticker = T
                             /\ PipePoints[k].points = PipeItems[i].PX_LAST

\* a failed quote of one requested ticker, a ticker left out, and the curve still
\* built from the spot quote and another requested quote
C8_Witness ==
  /\ PipeDone("main") /\ p_pair = "EURUSD" /\ ~p_out.threw /\ p_out.curve.set
  /\ \E i \in 1..Len(PipeItems) :
       PipeItems[i].security = "EURUSD1M Curncy" /\ ~PipeItems[i].success
  /\ GoodQuotes("EURUSD1M Curncy") = {} /\ GoodQuotes("EURUSD2W Curncy") = {}
  /\ \E k \in 1..Len(PipePoints) : PipePoints[k].ticker = "EURUSD1Y Curncy"
  /\ \A k \in 1..Len(PipePoints) : PipePoints[k].ticker # "EURUSD1M Curncy"

\* a term point carries the quoted value as points, and spot + points / pipFactor
\* as forward, from which (forward - spot) x pipFactor gives the points back
ReadsPoints(pt, pf) ==
  /\ \E i \in 1..Len(PipeItems) :
       PipeItems[i].security = pt.ticker /\ PipeItems[i].PX_LAST = pt.points
  /\ pt.forward = Plus(pt.spot, DivBy(pt.points, pf))
  /\ TimesBy(Minus(pt.forward, pt.spot), pf) = pt.points

\* C9: in FXForwardCurvesTab every term point has points = the quoted value v
\* and forward = spot + v / pipFactor, whatever the sign and size of v, so that
\* (forward - spot) x pipFactor is v.
C9_ForwardFromPoints ==
  PipeDone("main") =>
    \A k \in 1..Len(PipePoints) :
      PipePoints[k].tenor > 0 => ReadsPoints(PipePoints[k], LiteralPipFactor)

\* spot 1.0850 and -10.5 points give the forward rate 1.08395
C9_Witness ==
  /\ PipeDone("main") /\ p_pair = "EURUSD"
  /\ \E k \in 1..Len(PipePoints) :
       /\ PipePoints[k].spot = D(10850, -4)
       /\ PipePoints[k].points = D(-105, -1)
       /\ PipePoints[k].forward = D(108395, -5)

\* C10: every implementation of fetchForwardData reads the quoted value of a
\* forward ticker as forward points: forward = spot + value / pipFactor and
\* points = value, in each of them.
C10_AllVariantsReadPoints ==
  p_pc = "done" =>
    \A k \in 1..Len(PipePoints) :
      PipePoints[k].tenor > 0 => ReadsPoints(PipePoints[k], LiteralPipFactor)

\* the quote currency of a pair: its last three letters
QuoteCurrency(pair) == SubSeq(pair, 4, 6)

SpecPipFactor(pair) == IF QuoteCurrency(pair) = "JPY" THEN 100 ELSE 10000

C12_RatesFiniteAndPositive ==
  /\ y_pc = "done" =>
       \A k \in 1..Len(y_out.curve.points) :
         y_out.curve.points[k].rate.t = "num" /\ y_out.curve.points[k].rate.v > 0
  /\ PipeDone("main") =>
       \A k \in 1..Len(PipePoints) :
         PipePoints[k].forward.t = "num" /\ PipePoints[k].forward.v > 0

\* position of a point's label in the ladder of FXForwardCurvesTab, the spot first
LadderPosition(label) == IF label = "Spot" THEN -1 ELSE IndexOf(tenors, label)

\* position of a ticker in the instruments of a currency
InstrumentPosition(currency, ticker) ==
  CHOOSE n \in 1..Len(YieldInstruments(currency)) :
    YieldInstruments(currency)[n].ticker = ticker

NoValidTermQuote ==
  \A i \in 1..Len(PipeItems) :
    PipeItems[i].security # SpotTicker(p_pair) =>
      \/ i \notin GoodQuotes(PipeItems[i].security)
      \/ ~Gt0(Plus(SpotQuoted, DivBy(PipeItems[i].PX_LAST, LiteralPipFactor)))

\* C14: with a valid spot quote the pair's curve is set and nothing is thrown;
\* when no term quote gives a valid point the curve is the spot point alone.
C14_AnchorOnlyCurveKept ==
  (PipeDone("main") /\ p_reply.ok /\ p_reply.hasData /\ AnchorValid) =>
    /\ ~p_out.threw
    /\ p_out.curve.set
    /\ PipePoints[1].label = "Spot" /\ PipePoints[1].forward = SpotQuoted
    /\ NoValidTermQuote => Len(PipePoints) = 1

\* a valid spot quote beside a failed term quote and one driving the rate negative
C14_Witness ==
  /\ PipeDone("main") /\ p_pair = "EURUSD" /\ AnchorValid /\ NoValidTermQuote
  /\ \E i \in 1..Len(PipeItems) :
       PipeItems[i].security = "EURUSD1M Curncy" /\ ~PipeItems[i].success
  /\ \E i \in 1..Len(PipeItems) : PipeItems[i].security = "EURUSD5Y Curncy"
  /\ p_out.curve.set /\ Len(PipePoints) = 1

\* round(validPoints / total x 100), halves up
RoundedPercent(validPoints, total) == (200 * validPoints + total) \div (2 * total)

\* C15: every curve put in the output carries a dataQuality summary whose
\* validPoints is the number of its points and whose coverage is
\* validPoints / requested tickers x 100, rounded.
C15_CurveCarriesDataQuality ==
  (PipeDone("main") /\ p_out.curve.set) =>
    /\ "dataQuality" \in DOMAIN p_out.curve
    /\ p_out.curve.dataQuality.validPoints = Len(PipePoints)
    /\ p_out.curve.dataQuality.coverage
         = RoundedPercent(Len(PipePoints), Len(RequestOf("main", p_pair)))

CommittedCycles == {c \in 1..Len(cycles) : cycles[c].status = "committed"}

\* the curve a call committed for a pair, <<>> when the pair is absent from its map
CurveIn(c, pair) == IF pair \in DOMAIN cycles[c].out THEN cycles[c].out[pair] ELSE <<>>

\* the response holds no successful, numeric, positive quote of the pair's spot ticker
NoAnchorIn(pair, reply) ==
  \A i \in 1..Len(reply.items) :
    ~(/\ reply.items[i].security = SpotTicker(pair) /\ reply.items[i].success
      /\ reply.items[i].PX_LAST.t = "num" /\ reply.items[i].PX_LAST.v > 0)

GatewayFailed(c) == \E n \in 1..Len(cycles[c].replies) : ~cycles[c].replies[n].ok

\* C17: a call whose request fails at the gateway ends there: the failed
\* response is the last it receives, it commits nothing (the curves it built for
\* earlier pairs included), and the step that receives the failure sets the one
\* error, leaves forwardData and lastUpdate alone and starts no new call.
C17_GatewayFailureEndsCycle ==
  /\ [](\A c \in 1..Len(cycles) :
          GatewayFailed(c) =>
            /\ cycles[c].status = "failed"
            /\ cycles[c].out = <<>>
            /\ ~cycles[c].replies[Len(cycles[c].replies)].ok
            /\ \A n \in 1..(Len(cycles[c].replies) - 1) : cycles[c].replies[n].ok)
  /\ [][\A c \in 1..Len(cycles) :
          (~GatewayFailed(c) /\ GatewayFailed(c)')
            => /\ error' # Null /\ loading' = FALSE
               /\ forwardData' = forwardData /\ lastUpdate' = lastUpdate
               /\ Len(cycles') = Len(cycles)]_vars

\* a call for two pairs that built the first pair's curve and failed on the second
C17_Witness ==
  \E c \in 1..Len(cycles) :
    /\ GatewayFailed(c) /\ cycles[c].status = "failed"
    /\ Len(cycles[c].sel) = 2 /\ Len(cycles[c].replies) = 2
    /\ cycles[c].acc # <<>> /\ forwardData # cycles[c].acc
    /\ error # Null

\* C18: two calls for the same selection that received the same responses
\* committed the same map of curves, whatever other calls committed.
C18_SameResponsesSameCurves ==
  \A c1, c2 \in CommittedCycles :
    (cycles[c1].sel = cycles[c2].sel /\ cycles[c1].replies = cycles[c2].replies)
      => cycles[c1].out = cycles[c2].out

\* two such calls, and a third that committed a different map
C18_Witness ==
  \E c1, c2, c3 \in CommittedCycles :
    /\ c1 < c2 /\ c2 < c3
    /\ cycles[c1].sel = cycles[c3].sel /\ cycles[c1].replies = cycles[c3].replies
    /\ cycles[c1].out # <<>>
    /\ cycles[c2].out # cycles[c1].out /\ cycles[c2].out # <<>>
    /\ forwardData = cycles[c3].out

\* the anchor points of the curve: the points of tenor 0
AnchorPoints == {k \in 1..Len(PipePoints) : PipePoints[k].tenor = 0}

\* C19: a committed FX curve of FXForwardCurvesTab or FXForwardCurvesTabDetailed
\* has exactly one anchor point (tenor 0, forward = spot, points = 0,
\* impliedYield = 0), which is its first point, every other point having
\* tenor > 0, also when the response lists the spot security more than once.
C19_ExactlyOneAnchorFirst ==
  (p_pc = "done" /\ p_variant \in {"main", "detailed"} /\ p_out.curve.set) =>
    /\ AnchorPoints = {1}
    /\ PipePoints[1].label = "Spot"
    /\ PipePoints[1].forward = PipePoints[1].spot
    /\ PipePoints[1].points = Zero
    /\ PipePoints[1].impliedYield.zero
    /\ \A k \in 2..Len(PipePoints) : PipePoints[k].tenor > 0

\* the tenorDays table of an implementation
TableDays(variant, label) ==
  IF variant \in {"main", "fixed"} THEN tenorDays(label) ELSE tenorDaysDetailed(label)

\* C20: no point carries a value put in place of a missing one: every term point
\* has a tenor label of the tenor table and that label's days as tenor, and
\* numeric points and forward rate taken from a quote with a numeric PX_LAST.
C20_NoSubstitutedValues ==
  p_pc = "done" =>
    \A k \in 1..Len(PipePoints) :
      PipePoints[k].label # "Spot" =>
        /\ TableDays(p_variant, PipePoints[k].label) # 0
        /\ PipePoints[k].tenor = TableDays(p_variant, PipePoints[k].label)
        /\ PipePoints[k].forward.t = "num" /\ PipePoints[k].points.t = "num"
        /\ \E i \in 1..Len(PipeItems) :
             PipeItems[i].security = PipePoints[k].ticker /\ PipeItems[i].PX_LAST.t = "num"

\* C21: resolving a pair that no table knows ends in an error outcome with no
\* ticker requested for it, while a known pair with an empty tenor ladder
\* resolves to its spot ticker alone.
C21_UnknownIdentifierRejected ==
  r_i = Len(r_ladder) =>
    /\ r_pair \notin KnownPairs => securities = <<>>
    /\ (r_pair \in KnownPairs /\ r_ladder = <<>>) => securities = <<SpotTicker(r_pair)>>

\* C22: every point has years = tenor days / 365, that is years x 365 = days.
C22_YearsAreDaysOver365 ==
  /\ PipeDone("main") =>
       \A k \in 1..Len(PipePoints) :
         PipePoints[k].years.n * 365 = PipePoints[k].tenor * PipePoints[k].years.d
  /\ y_pc = "done" =>
       \A k \in 1..Len(y_out.curve.points) :
         y_out.curve.points[k].years.n * 365
           = y_out.curve.points[k].tenor * y_out.curve.points[k].years.d

\* C23: for USDINR the first five forward tickers of the request are IRN1W,
\* IRN1M, IRN2M, IRN3M and IRN6M Curncy.
C23_USDINRFirstFiveTickers ==
  (r_pair = "USDINR" /\ r_ladder = tenors /\ r_i = Len(r_ladder)) =>
    SubSeq(securities, 2, 6)
      = << "IRN1W Curncy", "IRN1M Curncy", "IRN2M Curncy", "IRN3M Curncy", "IRN6M Curncy" >>

Terminal(c) == cycles[c].status \in {"committed", "failed"}

InFlight == {c \in 1..Len(cycles) : cycles[c].status = "fetching"}

\* C24: if every gateway request eventually returns or fails, every started
\* call eventually ends, committed or failed, and stays so; and whenever no call
\* is in flight the loading flag is false.  A started call stays started and an
\* ended call stays ended, so "once started, eventually ended" is stated as: again
\* and again, call c is not started or has ended.
C24_EveryCycleTerminates ==
  /\ \A c \in 1..MaxCycles : []<>(c > Len(cycles) \/ Terminal(c))
  /\ [][Len(cycles') >= Len(cycles)]_vars
  /\ [][\A c \in 1..Len(cycles) : Terminal(c) => cycles'[c] = cycles[c]]_vars
  /\ [](InFlight = {} => loading = FALSE)

\* a committed call and a failed call, none in flight
C24_Witness ==
  /\ InFlight = {} /\ loading = FALSE
  /\ \E c1, c2 \in 1..Len(cycles) :
       cycles[c1].status = "committed" /\ cycles[c2].status = "failed"

\* C25: a yield curve needs its overnight quote: when the response holds no
\* successful numeric quote of the ON instrument, no curve is committed for the
\* currency, however many term instruments returned rates.
C25_OvernightAnchorRequired ==
  (y_pc = "done" /\ y_out.curve.set) =>
    \E i \in 1..Len(y_reply.items) :
      /\ y_reply.items[i].security = YieldInstruments(y_ccy)[1].ticker
      /\ y_reply.items[i].success
      /\ y_reply.items[i].PX_LAST.t = "num"

\* C26: loading is true whenever a call is in flight.
C26_LoadingWhileInFlight == InFlight # {} => loading = TRUE

\* C27: when no call is in flight, every pair with a curve in forwardData is
\* selected.
C27_CommittedCurvesAreSelected ==
  InFlight = {} => DOMAIN forwardData \subseteq Range(selectedPairs)

\* the items of a response with the quotes of the pair's spot ticker moved first
SpotFirst(pair, items) ==
  SelectSeq(items, LAMBDA q : q.security = SpotTicker(pair))
    \o SelectSeq(items, LAMBDA q : q.security # SpotTicker(pair))

\* C28: FXForwardCurvesTabDetailed builds the same set of points from a
\* response as from the same response with the spot quote listed first.
C28_DetailedIgnoresSpotPosition ==
  PipeDone("detailed") =>
    Range(PipePoints)
      = Range(BuildCurveDetailed(
                p_pair, [p_reply EXCEPT !.items = SpotFirst(p_pair, p_reply.items)]).points)

\* C29: once every call has ended, an error is shown exactly when the
\* latest-started call failed.
C29_ErrorIffLatestFailed ==
  InFlight = {} => (error # Null <=> cycles[Len(cycles)].status = "failed")

\* C30: a call that fails never touches forwardData or lastUpdate: each of its
\* steps before the failure changes nothing but dataSource and its own progress,
\* and the failing step changes nothing but error and loading.
C30_FailedCycleFrame ==
  [][\A c \in 1..Len(cycles) :
       (cycles'[c] # cycles[c] /\ cycles'[c].status # "committed")
         => /\ forwardData' = forwardData /\ lastUpdate' = lastUpdate
            /\ selectedPairs' = selectedPairs /\ Len(cycles') = Len(cycles)
            /\ cycles'[c].status = "fetching" => (error' = error /\ loading' = loading)
            /\ cycles'[c].status = "failed" => dataSource' = dataSource]_vars

\* a call that built a curve for its first pair and failed on the second, while
\* curves of an earlier call are shown
C30_Witness ==
  \E c \in 1..Len(cycles) :
    /\ cycles[c].status = "failed" /\ cycles[c].acc # <<>>
    /\ forwardData # <<>> /\ error # Null

====
